---- MODULE Spec2Model ----
(***************************************************************************)
(* The Person/Address/Course/Assignment service of src/main.py: four       *)
(* in-memory dicts keyed by UUID and the FastAPI handlers over them.       *)
(*                                                                         *)
(* Python values: None is the empty tuple and any other value v is the     *)
(* one-element tuple <<v>>, so that "supplied as null", "supplied" and     *)
(* "not supplied" (key absent from the dumped dict) stay three cases.      *)
(* A pydantic model instance is the dict model_dump() returns for it.      *)
(* A dict is the sequence of its entries in insertion order.               *)
(*                                                                         *)
(* now is the clock when the latest request was served, uuids the number   *)
(* of UUIDs uuid4() has returned, resp the latest response.  order and     *)
(* removed are history variables, read by no handler: order[k] lists the   *)
(* ids of the records of resource k in the order their creations           *)
(* succeeded, removed holds <<k, id>> for every record ever deleted, and    *)
(* again tells that the latest request was an update repeating the request *)
(* before it.  racing holds an update and a delete of one id running in    *)
(* two threads of the thread pool, each at a line of its handler.          *)
(***************************************************************************)
EXTENDS Integers, Sequences, FiniteSets, TLC

VARIABLES persons, addresses, courses, assignments, now, uuids, resp, order, removed,
          again, racing

vars == <<persons, addresses, courses, assignments, now, uuids, resp, order, removed,
          again, racing>>

-----------------------------------------------------------------------------
(* Bounds of the model *)

\* uuid4() is called at most this many times
MaxUuid == 2
\* the clock takes the values 0..MaxClock
MaxClock == 1

-----------------------------------------------------------------------------
(* Python values and dicts *)

None == <<>>

Some(v) == <<v>>

Min(a, b) == IF a < b THEN a ELSE b

\* the values datetime.utcnow() can return at or after clock value t
Ticks(t) == t .. Min(t + 1, MaxClock)

Keys(d) == {d[i].key : i \in DOMAIN d}

Has(d, k) == k \in Keys(d)

IndexOf(d, k) == CHOOSE i \in DOMAIN d : d[i].key = k

GetItem(d, k) == d[IndexOf(d, k)].value

\* SetItem with the bug of deleting the key before writing it: a rewritten key moves last
SetItem_MovesToEnd(d, k, v) ==
    Append(SelectSeq(d, LAMBDA e : e.key # k), [key |-> k, value |-> v])

\* d[k] = v: an existing key keeps its position, a new key goes last
SetItem(d, k, v) ==
    IF Has(d, k)
    THEN [d EXCEPT ![IndexOf(d, k)] = [key |-> k, value |-> v]]
    ELSE Append(d, [key |-> k, value |-> v])

\* del d[k]
DelItem(d, k) == SelectSeq(d, LAMBDA e : e.key # k)

\* list(d.values())
Values(d) == [i \in DOMAIN d |-> d[i].value]

\* dict_update with the bug of skipping the supplied fields whose value is None
dict_update_SkipsNone(stored, upd) ==
    [f \in (DOMAIN stored) \cup (DOMAIN upd) |->
        IF f \in DOMAIN upd /\ (upd[f] # None \/ f \notin DOMAIN stored) THEN upd[f]
        ELSE stored[f]]

\* stored.update(upd) on plain dicts
dict_update(stored, upd) ==
    [f \in (DOMAIN stored) \cup (DOMAIN upd) |->
        IF f \in DOMAIN upd THEN upd[f] ELSE stored[f]]

\* one filter of a list handler: `if q is not None: results = [r for r in results if r.f == q]`
FilterEq(results, q, f) ==
    IF q # None THEN SelectSeq(results, LAMBDA r : r[f] = q) ELSE results

\* uuid4 with the bug of numbering records by the count of those held
uuid4_CountsRecords == Len(persons) + Len(courses) + Len(assignments) + 1

\* the UUIDs uuid4() has returned so far are 1..uuids; it never repeats one
uuid4 == uuids + 1

\* UUIDs clients put in paths and payloads: 0, which uuid4() never returns, and
\* everything it can return
ClientIds == 0 .. MaxUuid

\* the resources other than k
Others(k) == {"person", "address", "course", "assignment"} \ {k}

\* the clients of a run work with one resource: they call a handler of resource k
\* while no record of another resource has ever been created
Alone(k) ==
    /\ \A o \in Others(k) : order[o] = << >>
    /\ \A r \in removed : r[1] = k

\* the response of a handler, with the request it answers
Response(op, id, args, status, body) ==
    [op |-> op, id |-> id, args |-> args, status |-> status, body |-> body]

\* YYYY-MM-DD
Pad2(n) == IF n < 10 THEN "0" \o ToString(n) ELSE ToString(n)

isoformat(d) == ToString(d[1]) \o "-" \o Pad2(d[2]) \o "-" \o Pad2(d[3])

\* str(v) of an Optional[date]
str(v) == IF v = None THEN "None" ELSE isoformat(v[1])

\* `if q is not None: results = [r for r in results if str(r.f) == q]`
FilterStr(results, q, f) ==
    IF q # None THEN SelectSeq(results, LAMBDA r : Some(str(r[f])) = q) ELSE results

\* Read with the bug of filling updated_at before created_at
Read_SwapsTimestamps(fields, d, uid, t1, t2) ==
    [f \in fields |->
        IF f \in DOMAIN d THEN d[f]
        ELSE IF f = "id" THEN uid
        ELSE IF f = "created_at" THEN t2
        ELSE IF f = "updated_at" THEN t1
        ELSE None]

\* XRead(**d) of a model with the given fields: a field absent from d takes its
\* default; the default factories of id, created_at and updated_at return uid,
\* t1 and t2, and every other default is None. Keys of d that are no field are ignored.
Read(fields, d, uid, t1, t2) ==
    [f \in fields |->
        IF f \in DOMAIN d THEN d[f]
        ELSE IF f = "id" THEN uid
        ELSE IF f = "created_at" THEN t1
        ELSE IF f = "updated_at" THEN t2
        ELSE None]

\* XRead(**d) raises a validation error unless every required field is a non-null value
Valid(required, d) == \A f \in required : f \in DOMAIN d /\ d[f] # None

\* Dump with the bug of keeping the keys of the body that are no field of the model
Dump_KeepsUnknownKeys(fields, body) == body

\* XUpdate(**body).model_dump(exclude_unset=True): the fields of the model the
\* body supplies; keys that are no field of the model are ignored
Dump(fields, body) == [f \in (DOMAIN body) \cap fields |-> body[f]]

-----------------------------------------------------------------------------
(* Address: models/address.py, and the Address endpoints of src/main.py *)

AddressRequired == {"street", "city", "country"}

AddressFields == {"street", "city", "state", "postal_code", "country"}

AddressReadFields == AddressFields \cup {"id", "created_at", "updated_at"}

AddressRead(d, uid, t1, t2) == Read(AddressReadFields, d, uid, t1, t2)

AddressUpdate(body) == Dump(AddressFields, body)

\* the UUIDs clients give the addresses they create
AddressIds == {0, 1}

\* model_dump() of the AddressCreate payloads clients send, id included
AddressCreates ==
    { [id |-> i, street |-> Some("116th St"), city |-> Some("New York"), state |-> Some("NY"),
       postal_code |-> None, country |-> Some("USA")] : i \in AddressIds }

\* the JSON bodies of PATCH /addresses/{address_id}
AddressUpdateBodies ==
    { [city |-> Some(""), state |-> None, postal_code |-> Some("10027"), id |-> 1],
      [street |-> None],
      << >> }

\* the query parameters of GET /addresses
AddressFilters ==
    { [street |-> None, city |-> c, state |-> s, postal_code |-> None, country |-> None] :
        c \in {None, Some("New York")}, s \in {None, Some("NY")} }

\* create_address without its check of the id
create_address_Overwrites(address, t1, t2) ==
    /\ addresses' = SetItem(addresses, address.id, AddressRead(address, uuid4, t1, t2))
    /\ resp' = Response("create_address", address.id, address, 201,
                        GetItem(addresses', address.id))
    /\ now' = t2
    /\ order' = [order EXCEPT !["address"] =
                    Append(SelectSeq(@, LAMBDA i : i # address.id), address.id)]
    /\ UNCHANGED <<persons, courses, assignments, uuids, removed>>

create_address(address, t1, t2) ==
    /\ IF Has(addresses, address.id)
       THEN /\ resp' = Response("create_address", address.id, address, 400, None)
            /\ now' = t1
            /\ UNCHANGED <<addresses, order>>
       ELSE /\ addresses' = SetItem(addresses, address.id, AddressRead(address, uuid4, t1, t2))
            /\ resp' = Response("create_address", address.id, address, 201,
                                GetItem(addresses', address.id))
            /\ now' = t2
            /\ order' = [order EXCEPT !["address"] = Append(@, address.id)]
    /\ UNCHANGED <<persons, courses, assignments, uuids>>
    /\ UNCHANGED removed

list_addresses_results(q) ==
    FilterEq(FilterEq(FilterEq(FilterEq(FilterEq(Values(addresses),
        q.street, "street"), q.city, "city"), q.state, "state"),
        q.postal_code, "postal_code"), q.country, "country")

list_addresses(q, t) ==
    /\ resp' = Response("list_addresses", 0, q, 200, list_addresses_results(q))
    /\ now' = t
    /\ UNCHANGED <<persons, addresses, courses, assignments, uuids>>
    /\ UNCHANGED <<order, removed>>

get_address(address_id, t) ==
    /\ IF ~Has(addresses, address_id)
       THEN resp' = Response("get_address", address_id, None, 404, None)
       ELSE resp' = Response("get_address", address_id, None, 200,
                             GetItem(addresses, address_id))
    /\ now' = t
    /\ UNCHANGED <<persons, addresses, courses, assignments, uuids>>
    /\ UNCHANGED <<order, removed>>

update_address(address_id, update, t) ==
    /\ IF ~Has(addresses, address_id)
       THEN /\ resp' = Response("update_address", address_id, update, 404, None)
            /\ UNCHANGED addresses
       ELSE LET stored == dict_update(GetItem(addresses, address_id), update) IN
            IF ~Valid(AddressRequired, stored)
            THEN /\ resp' = Response("update_address", address_id, update, 500, None)
                 /\ UNCHANGED addresses
            ELSE /\ addresses' = SetItem(addresses, address_id, AddressRead(stored, uuid4, t, t))
                 /\ resp' = Response("update_address", address_id, update, 200,
                                     GetItem(addresses', address_id))
    /\ now' = t
    /\ UNCHANGED <<persons, courses, assignments, uuids>>
    /\ UNCHANGED <<order, removed>>

delete_address(address_id, t) ==
    /\ IF ~Has(addresses, address_id)
       THEN /\ resp' = Response("delete_address", address_id, None, 404, None)
            /\ UNCHANGED <<addresses, order, removed>>
       ELSE /\ addresses' = DelItem(addresses, address_id)
            /\ resp' = Response("delete_address", address_id, None, 204, None)
            /\ order' = [order EXCEPT !["address"] = SelectSeq(@, LAMBDA i : i # address_id)]
            /\ removed' = removed \cup {<<"address", address_id>>}
    /\ now' = t
    /\ UNCHANGED <<persons, courses, assignments, uuids>>

-----------------------------------------------------------------------------
(* Person: models/person.py, and the Person endpoints of src/main.py *)

PersonRequired == {"uni", "first_name", "last_name", "email"}

PersonFields == PersonRequired \cup {"phone", "birth_date", "addresses"}

PersonReadFields == PersonFields \cup {"id", "created_at", "updated_at"}

PersonRead(d, uid, t1, t2) == Read(PersonReadFields, d, uid, t1, t2)

PersonUpdate(body) == Dump(PersonFields, body)

\* an embedded address of a person
Embedded(city, country) ==
    [id |-> 0, street |-> Some("116th St"), city |-> Some(city), state |-> None,
     postal_code |-> None, country |-> Some(country)]

\* model_dump() of the PersonCreate payloads clients send
PersonCreates ==
    { [uni |-> Some("abc1234"), first_name |-> Some("Ada"), last_name |-> Some("Lovelace"),
       email |-> Some("ada@example.com"), phone |-> None,
       birth_date |-> Some(<<1815, 12, 10>>),
       addresses |-> <<Embedded("London", "UK"), Embedded("Paris", "France")>>] }

\* the JSON bodies of PATCH /persons/{person_id}
PersonUpdateBodies ==
    { [first_name |-> Some(""), birth_date |-> None,
       addresses |-> <<Embedded("Paris", "UK")>>, id |-> 1],
      [uni |-> None],
      << >> }

\* the query parameters of GET /persons
PersonFilters ==
    { q \in { [uni |-> None, first_name |-> None, last_name |-> None, email |-> None,
               phone |-> None, birth_date |-> bd, city |-> c, country |-> co] :
                bd \in {None, Some("1815-12-10")},
                c \in {None, Some("Paris")}, co \in {None, Some("UK")} } :
        q.birth_date = None \/ q.city = None }

\* `any(addr.f == q for addr in p.addresses)`
AnyAddress(p, f, q) == \E i \in DOMAIN p.addresses : p.addresses[i][f] = q

\* `if q is not None: results = [p for p in results if any(addr.f == q for addr in p.addresses)]`
FilterAny(results, q, f) ==
    IF q # None THEN SelectSeq(results, LAMBDA p : AnyAddress(p, f, q)) ELSE results

create_person(person, t1, t2) ==
    /\ uuids < MaxUuid
    /\ LET person_read == PersonRead(person, uuid4, t1, t2) IN
        /\ persons' = SetItem(persons, person_read.id, person_read)
        /\ resp' = Response("create_person", person_read.id, person, 201, person_read)
    /\ uuids' = uuids + 1
    /\ now' = t2
    /\ UNCHANGED <<addresses, courses, assignments>>
    /\ order' = [order EXCEPT !["person"] = Append(@, uuid4)]
    /\ UNCHANGED removed

list_persons_results(q) ==
    FilterAny(FilterAny(FilterStr(FilterEq(FilterEq(FilterEq(FilterEq(FilterEq(Values(persons),
        q.uni, "uni"), q.first_name, "first_name"), q.last_name, "last_name"),
        q.email, "email"), q.phone, "phone"), q.birth_date, "birth_date"),
        q.city, "city"), q.country, "country")

list_persons(q, t) ==
    /\ resp' = Response("list_persons", 0, q, 200, list_persons_results(q))
    /\ now' = t
    /\ UNCHANGED <<persons, addresses, courses, assignments, uuids>>
    /\ UNCHANGED <<order, removed>>

get_person(person_id, t) ==
    /\ IF ~Has(persons, person_id)
       THEN resp' = Response("get_person", person_id, None, 404, None)
       ELSE resp' = Response("get_person", person_id, None, 200, GetItem(persons, person_id))
    /\ now' = t
    /\ UNCHANGED <<persons, addresses, courses, assignments, uuids>>
    /\ UNCHANGED <<order, removed>>

update_person(person_id, update, t) ==
    /\ IF ~Has(persons, person_id)
       THEN /\ resp' = Response("update_person", person_id, update, 404, None)
            /\ UNCHANGED persons
       ELSE LET stored == dict_update(GetItem(persons, person_id), update) IN
            IF ~Valid(PersonRequired, stored)
            THEN /\ resp' = Response("update_person", person_id, update, 500, None)
                 /\ UNCHANGED persons
            ELSE /\ persons' = SetItem(persons, person_id, PersonRead(stored, uuid4, t, t))
                 /\ resp' = Response("update_person", person_id, update, 200,
                                     GetItem(persons', person_id))
    /\ now' = t
    /\ UNCHANGED <<addresses, courses, assignments, uuids>>
    /\ UNCHANGED <<order, removed>>

-----------------------------------------------------------------------------
(* Course: src/models/course.py, and the Course endpoints of src/main.py *)

CourseRequired == {"course_code", "title", "description", "credits", "instructor", "schedule"}

CourseFields == CourseRequired \cup {"semester", "location"}

CourseReadFields == CourseFields \cup {"id", "created_at", "updated_at"}

CourseRead(d, uid, t1, t2) == Read(CourseReadFields, d, uid, t1, t2)

CourseUpdate(body) == Dump(CourseFields, body)

\* model_dump() of the CourseCreate payloads clients send
CourseCreates ==
    { [course_code |-> Some("COMS W4153"), title |-> Some("Cloud Computing"),
       description |-> Some("intro"), credits |-> Some(3),
       instructor |-> Some("Ferguson"), schedule |-> Some("MWF"),
       semester |-> Some("Fall 2025"), location |-> None],
      [course_code |-> Some("COMS W4111"), title |-> Some("Databases"),
       description |-> Some("intro"), credits |-> Some(3),
       instructor |-> Some("Gravano"), schedule |-> Some("TTh"),
       semester |-> None, location |-> None] }

\* the JSON bodies of PATCH /courses/{course_id}
CourseUpdateBodies ==
    { [title |-> Some(""), credits |-> Some(0), semester |-> None, id |-> 1],
      [title |-> None],
      << >> }

\* the query parameters of GET /courses
CourseFilters ==
    { [course_code |-> None, title |-> None, instructor |-> ins, credits |-> cr, semester |-> None] :
        ins \in {None, Some("Ferguson")}, cr \in {None, Some(3)} }

create_course(course, t1, t2) ==
    /\ uuids < MaxUuid
    /\ LET course_read == CourseRead(course, uuid4, t1, t2) IN
        /\ courses' = SetItem(courses, course_read.id, course_read)
        /\ resp' = Response("create_course", course_read.id, course, 201, course_read)
    /\ uuids' = uuids + 1
    /\ now' = t2
    /\ UNCHANGED <<persons, addresses, assignments>>
    /\ order' = [order EXCEPT !["course"] = Append(@, uuid4)]
    /\ UNCHANGED removed

\* list_courses_results with the bug of an elif chain: only the first supplied filter applies
list_courses_results_FirstFilterOnly(q) ==
    IF q.course_code # None THEN FilterEq(Values(courses), q.course_code, "course_code")
    ELSE IF q.title # None THEN FilterEq(Values(courses), q.title, "title")
    ELSE IF q.instructor # None THEN FilterEq(Values(courses), q.instructor, "instructor")
    ELSE IF q.credits # None THEN FilterEq(Values(courses), q.credits, "credits")
    ELSE FilterEq(Values(courses), q.semester, "semester")

list_courses_results(q) ==
    FilterEq(FilterEq(FilterEq(FilterEq(FilterEq(Values(courses),
        q.course_code, "course_code"), q.title, "title"), q.instructor, "instructor"),
        q.credits, "credits"), q.semester, "semester")

list_courses(q, t) ==
    /\ resp' = Response("list_courses", 0, q, 200, list_courses_results(q))
    /\ now' = t
    /\ UNCHANGED <<persons, addresses, courses, assignments, uuids>>
    /\ UNCHANGED <<order, removed>>

get_course(course_id, t) ==
    /\ IF ~Has(courses, course_id)
       THEN resp' = Response("get_course", course_id, None, 404, None)
       ELSE resp' = Response("get_course", course_id, None, 200, GetItem(courses, course_id))
    /\ now' = t
    /\ UNCHANGED <<persons, addresses, courses, assignments, uuids>>
    /\ UNCHANGED <<order, removed>>

\* update_course with the bug of returning the record read before the write
update_course_ReturnsOld(course_id, update, t) ==
    /\ IF ~Has(courses, course_id)
       THEN /\ resp' = Response("update_course", course_id, update, 404, None)
            /\ UNCHANGED courses
       ELSE LET stored == dict_update(GetItem(courses, course_id), update) IN
            IF ~Valid(CourseRequired, stored)
            THEN /\ resp' = Response("update_course", course_id, update, 500, None)
                 /\ UNCHANGED courses
            ELSE /\ courses' = SetItem(courses, course_id, CourseRead(stored, uuid4, t, t))
                 /\ resp' = Response("update_course", course_id, update, 200,
                                     GetItem(courses, course_id))
    /\ now' = t
    /\ UNCHANGED <<persons, addresses, assignments, uuids>>
    /\ UNCHANGED <<order, removed>>

update_course(course_id, update, t) ==
    /\ IF ~Has(courses, course_id)
       THEN /\ resp' = Response("update_course", course_id, update, 404, None)
            /\ UNCHANGED courses
       ELSE LET stored == dict_update(GetItem(courses, course_id), update) IN
            IF ~Valid(CourseRequired, stored)
            THEN /\ resp' = Response("update_course", course_id, update, 500, None)
                 /\ UNCHANGED courses
            ELSE /\ courses' = SetItem(courses, course_id, CourseRead(stored, uuid4, t, t))
                 /\ resp' = Response("update_course", course_id, update, 200,
                                     GetItem(courses', course_id))
    /\ now' = t
    /\ UNCHANGED <<persons, addresses, assignments, uuids>>
    /\ UNCHANGED <<order, removed>>

\* delete_course with the bug of answering 204 for an id that is no key
delete_course_Silent(course_id, t) ==
    /\ courses' = DelItem(courses, course_id)
    /\ resp' = Response("delete_course", course_id, None, 204, None)
    /\ order' = [order EXCEPT !["course"] = SelectSeq(@, LAMBDA i : i # course_id)]
    /\ removed' = IF Has(courses, course_id) THEN removed \cup {<<"course", course_id>>}
                  ELSE removed
    /\ now' = t
    /\ UNCHANGED <<persons, addresses, assignments, uuids>>

delete_course(course_id, t) ==
    /\ IF ~Has(courses, course_id)
       THEN /\ resp' = Response("delete_course", course_id, None, 404, None)
            /\ UNCHANGED <<courses, order, removed>>
       ELSE /\ courses' = DelItem(courses, course_id)
            /\ resp' = Response("delete_course", course_id, None, 204, None)
            /\ order' = [order EXCEPT !["course"] = SelectSeq(@, LAMBDA i : i # course_id)]
            /\ removed' = removed \cup {<<"course", course_id>>}
    /\ now' = t
    /\ UNCHANGED <<persons, addresses, assignments, uuids>>

-----------------------------------------------------------------------------
(* Assignment: src/models/assignment.py, and the Assignment endpoints of src/main.py *)

AssignmentRequired == {"title", "assignment_type", "course_id", "assigned_date", "due_date"}

AssignmentFields == AssignmentRequired \cup {"description", "max_points"}

AssignmentReadFields == AssignmentFields \cup {"id", "created_at", "updated_at"}

AssignmentRead(d, uid, t1, t2) == Read(AssignmentReadFields, d, uid, t1, t2)

AssignmentUpdate(body) == Dump(AssignmentFields, body)

\* model_dump() of the AssignmentCreate payloads clients send
AssignmentCreates ==
    { [title |-> Some("Midterm Exam"), description |-> None, assignment_type |-> Some("exam"),
       course_id |-> Some(1), assigned_date |-> Some(<<2025, 10, 1>>),
       due_date |-> Some(<<2025, 10, 15>>), max_points |-> Some(200)] }

\* the JSON bodies of PATCH /assignments/{assignment_id}
AssignmentUpdateBodies ==
    { [title |-> Some(""), due_date |-> Some(<<2025, 9, 5>>), max_points |-> None, id |-> 1],
      [course_id |-> None],
      << >> }

\* the query parameters of GET /assignments
AssignmentFilters ==
    { q \in { [title |-> None, assignment_type |-> ty, course_id |-> c, due_date |-> d,
               assigned_date |-> None] :
                ty \in {None, Some("exam")}, c \in {None, Some(1)},
                d \in {None, Some("2025-09-05"), Some("2025-9-5")} } :
        q.course_id = None \/ q.due_date = None }

\* create_assignment with a check that the course exists
create_assignment_ChecksCourse(assignment, t1, t2) ==
    IF assignment.course_id = None \/ ~Has(courses, assignment.course_id[1])
    THEN /\ resp' = Response("create_assignment", 0, assignment, 404, None)
         /\ now' = t1
         /\ UNCHANGED <<persons, addresses, courses, assignments, uuids, order, removed>>
    ELSE /\ uuids < MaxUuid
         /\ LET assignment_read == AssignmentRead(assignment, uuid4, t1, t2) IN
             /\ assignments' = SetItem(assignments, assignment_read.id, assignment_read)
             /\ resp' = Response("create_assignment", assignment_read.id, assignment, 201,
                                 assignment_read)
         /\ uuids' = uuids + 1
         /\ now' = t2
         /\ UNCHANGED <<persons, addresses, courses>>
         /\ order' = [order EXCEPT !["assignment"] = Append(@, uuid4)]
         /\ UNCHANGED removed

create_assignment(assignment, t1, t2) ==
    /\ uuids < MaxUuid
    /\ LET assignment_read == AssignmentRead(assignment, uuid4, t1, t2) IN
        /\ assignments' = SetItem(assignments, assignment_read.id, assignment_read)
        /\ resp' = Response("create_assignment", assignment_read.id, assignment, 201,
                            assignment_read)
    /\ uuids' = uuids + 1
    /\ now' = t2
    /\ UNCHANGED <<persons, addresses, courses>>
    /\ order' = [order EXCEPT !["assignment"] = Append(@, uuid4)]
    /\ UNCHANGED removed

list_assignments_results(q) ==
    FilterStr(FilterStr(FilterEq(FilterEq(FilterEq(Values(assignments),
        q.title, "title"), q.assignment_type, "assignment_type"), q.course_id, "course_id"),
        q.due_date, "due_date"), q.assigned_date, "assigned_date")

list_assignments(q, t) ==
    /\ resp' = Response("list_assignments", 0, q, 200, list_assignments_results(q))
    /\ now' = t
    /\ UNCHANGED <<persons, addresses, courses, assignments, uuids>>
    /\ UNCHANGED <<order, removed>>

get_assignment(assignment_id, t) ==
    /\ IF ~Has(assignments, assignment_id)
       THEN resp' = Response("get_assignment", assignment_id, None, 404, None)
       ELSE resp' = Response("get_assignment", assignment_id, None, 200,
                             GetItem(assignments, assignment_id))
    /\ now' = t
    /\ UNCHANGED <<persons, addresses, courses, assignments, uuids>>
    /\ UNCHANGED <<order, removed>>

\* update_assignment with the bug of dropping created_at from the merged dict, so that
\* its default factory fills it again
update_assignment_RefreshesCreatedAt(assignment_id, update, t) ==
    /\ IF ~Has(assignments, assignment_id)
       THEN /\ resp' = Response("update_assignment", assignment_id, update, 404, None)
            /\ UNCHANGED assignments
       ELSE LET merged == dict_update(GetItem(assignments, assignment_id), update)
                stored == [f \in DOMAIN merged \ {"created_at"} |-> merged[f]] IN
            IF ~Valid(AssignmentRequired, stored)
            THEN /\ resp' = Response("update_assignment", assignment_id, update, 500, None)
                 /\ UNCHANGED assignments
            ELSE /\ assignments' = SetItem(assignments, assignment_id,
                                           AssignmentRead(stored, uuid4, t, t))
                 /\ resp' = Response("update_assignment", assignment_id, update, 200,
                                     GetItem(assignments', assignment_id))
    /\ now' = t
    /\ UNCHANGED <<persons, addresses, courses, uuids>>
    /\ UNCHANGED <<order, removed>>

update_assignment(assignment_id, update, t) ==
    /\ IF ~Has(assignments, assignment_id)
       THEN /\ resp' = Response("update_assignment", assignment_id, update, 404, None)
            /\ UNCHANGED assignments
       ELSE LET stored == dict_update(GetItem(assignments, assignment_id), update) IN
            IF ~Valid(AssignmentRequired, stored)
            THEN /\ resp' = Response("update_assignment", assignment_id, update, 500, None)
                 /\ UNCHANGED assignments
            ELSE /\ assignments' = SetItem(assignments, assignment_id,
                                           AssignmentRead(stored, uuid4, t, t))
                 /\ resp' = Response("update_assignment", assignment_id, update, 200,
                                     GetItem(assignments', assignment_id))
    /\ now' = t
    /\ UNCHANGED <<persons, addresses, courses, uuids>>
    /\ UNCHANGED <<order, removed>>

-----------------------------------------------------------------------------
(* The service *)

\* no update and delete are running side by side
Idle ==
    [kind |-> "course", id |-> 0, update |-> << >>, stored |-> None,
     upd |-> "idle", del |-> "idle", ustatus |-> 0, dstatus |-> 0]

\* the request just served is a successful update that repeats the request served
\* before it, which succeeded too: same handler, same id, same payload
Repeats ==
    /\ resp'.op \in {"update_person", "update_address", "update_course", "update_assignment"}
    /\ resp'.op = resp.op
    /\ resp'.id = resp.id
    /\ resp'.args = resp.args
    /\ resp.status = 200
    /\ resp'.status = 200

\* a request served from its first line to its last with no other request in between
Served ==
    /\ again' = Repeats
    /\ UNCHANGED racing

Init ==
    /\ persons = << >>
    /\ addresses = << >>
    /\ courses = << >>
    /\ assignments = << >>
    /\ now = 0
    /\ uuids = 0
    /\ resp = Response("none", 0, None, 0, None)
    /\ order = [person |-> << >>, address |-> << >>, course |-> << >>, assignment |-> << >>]
    /\ removed = {}
    /\ again = FALSE
    /\ racing = Idle

Next ==
    \/ \E c \in CourseCreates, t1 \in Ticks(now) : \E t2 \in Ticks(t1) :
            Alone("course") /\ create_course(c, t1, t2) /\ Served
    \/ \E q \in CourseFilters, t \in Ticks(now) :
            Alone("course") /\ list_courses(q, t) /\ Served
    \/ \E id \in ClientIds, t \in Ticks(now) : Alone("course") /\ get_course(id, t) /\ Served
    \/ \E id \in ClientIds, b \in CourseUpdateBodies, t \in Ticks(now) :
            Alone("course") /\ update_course(id, CourseUpdate(b), t) /\ Served
    \/ \E id \in ClientIds, t \in Ticks(now) : Alone("course") /\ delete_course(id, t) /\ Served
    \/ \E a \in AssignmentCreates, t1 \in Ticks(now) : \E t2 \in Ticks(t1) :
            Alone("assignment") /\ create_assignment(a, t1, t2) /\ Served
    \/ \E q \in AssignmentFilters, t \in Ticks(now) :
            Alone("assignment") /\ list_assignments(q, t) /\ Served
    \/ \E id \in ClientIds, t \in Ticks(now) :
            Alone("assignment") /\ get_assignment(id, t) /\ Served
    \/ \E id \in ClientIds, b \in AssignmentUpdateBodies, t \in Ticks(now) :
            Alone("assignment") /\ update_assignment(id, AssignmentUpdate(b), t) /\ Served
    \/ \E a \in AddressCreates, t1 \in Ticks(now) : \E t2 \in Ticks(t1) :
            Alone("address") /\ create_address(a, t1, t2) /\ Served
    \/ \E q \in AddressFilters, t \in Ticks(now) :
            Alone("address") /\ list_addresses(q, t) /\ Served
    \/ \E id \in ClientIds, t \in Ticks(now) : Alone("address") /\ get_address(id, t) /\ Served
    \/ \E id \in ClientIds, b \in AddressUpdateBodies, t \in Ticks(now) :
            Alone("address") /\ update_address(id, AddressUpdate(b), t) /\ Served
    \/ \E id \in ClientIds, t \in Ticks(now) :
            Alone("address") /\ delete_address(id, t) /\ Served
    \/ \E p \in PersonCreates, t1 \in Ticks(now) : \E t2 \in Ticks(t1) :
            Alone("person") /\ create_person(p, t1, t2) /\ Served
    \/ \E q \in PersonFilters, t \in Ticks(now) :
            Alone("person") /\ list_persons(q, t) /\ Served
    \/ \E id \in ClientIds, t \in Ticks(now) : Alone("person") /\ get_person(id, t) /\ Served
    \/ \E id \in ClientIds, b \in PersonUpdateBodies, t \in Ticks(now) :
            Alone("person") /\ update_person(id, PersonUpdate(b), t) /\ Served

Spec == Init /\ [][Next]_vars

-----------------------------------------------------------------------------
(* The four resources used together: the clients of a run call the handlers *)
(* of every resource, with one creation payload and one update body per     *)
(* resource and lists without query parameters, all served at one clock     *)
(* value.                                                                   *)

\* the queries of a list handler that supply no parameter
Plain(filters) == {q \in filters : \A f \in DOMAIN q : q[f] = None}

\* the update bodies that supply field f
Supplying(bodies, f) == {b \in bodies : f \in DOMAIN b}

NextShared ==
    \/ \E c \in {x \in CourseCreates : x.semester = None} :
            create_course(c, now, now) /\ Served
    \/ \E q \in Plain(CourseFilters) : list_courses(q, now) /\ Served
    \/ \E id \in ClientIds : get_course(id, now) /\ Served
    \/ \E id \in ClientIds, b \in Supplying(CourseUpdateBodies, "title") :
            update_course(id, CourseUpdate(b), now) /\ Served
    \/ \E id \in ClientIds : delete_course(id, now) /\ Served
    \/ \E a \in AssignmentCreates : create_assignment(a, now, now) /\ Served
    \/ \E q \in Plain(AssignmentFilters) : list_assignments(q, now) /\ Served
    \/ \E id \in ClientIds : get_assignment(id, now) /\ Served
    \/ \E id \in ClientIds, b \in Supplying(AssignmentUpdateBodies, "title") :
            update_assignment(id, AssignmentUpdate(b), now) /\ Served
    \/ \E a \in {x \in AddressCreates : x.id = 0} : create_address(a, now, now) /\ Served
    \/ \E q \in Plain(AddressFilters) : list_addresses(q, now) /\ Served
    \/ \E id \in ClientIds : get_address(id, now) /\ Served
    \/ \E id \in ClientIds, b \in Supplying(AddressUpdateBodies, "city") :
            update_address(id, AddressUpdate(b), now) /\ Served
    \/ \E id \in ClientIds : delete_address(id, now) /\ Served
    \/ \E p \in PersonCreates : create_person(p, now, now) /\ Served
    \/ \E q \in Plain(PersonFilters) : list_persons(q, now) /\ Served
    \/ \E id \in ClientIds : get_person(id, now) /\ Served
    \/ \E id \in ClientIds, b \in Supplying(PersonUpdateBodies, "first_name") :
            update_person(id, PersonUpdate(b), now) /\ Served

SpecShared == Init /\ [][NextShared]_vars

-----------------------------------------------------------------------------
(* An update and a delete of one id of the address or the course dict       *)
(* running in two threads: the handlers are plain `def` functions, which    *)
(* FastAPI runs in a thread pool, so that one may run between any two lines *)
(* of the other.  racing.upd and racing.del are the lines the threads are   *)
(* at, racing.stored the local variable stored of the update, and           *)
(* racing.ustatus and racing.dstatus the status codes answered.  An         *)
(* exception other than HTTPException leaves the handler and is answered    *)
(* with 500.                                                                *)

\* the update bodies that set no required field to None
Keeping(bodies, required) == {b \in bodies : \A f \in required \cap DOMAIN b : b[f] # None}

\* the dict the two requests work on
RaceDict == IF racing.kind = "address" THEN addresses ELSE courses

\* the dict the two requests work on becomes d
RaceWrite(d) ==
    IF racing.kind = "address"
    THEN addresses' = d /\ UNCHANGED courses
    ELSE courses' = d /\ UNCHANGED addresses

\* both requests arrive: PATCH and DELETE of /addresses/{id} or /courses/{id}
start_race(kind, id, update) ==
    /\ racing = Idle
    /\ racing' = [kind |-> kind, id |-> id, update |-> update, stored |-> None,
                  upd |-> "check", del |-> "check", ustatus |-> 0, dstatus |-> 0]
    /\ UNCHANGED <<persons, addresses, courses, assignments, now, uuids, resp, order,
                   removed, again>>

\* `if id not in d: raise HTTPException(status_code=404)`
update_check ==
    /\ racing.upd = "check"
    /\ racing' = IF Has(RaceDict, racing.id)
                 THEN [racing EXCEPT !.upd = "read"]
                 ELSE [racing EXCEPT !.upd = "done", !.ustatus = 404]
    /\ UNCHANGED <<persons, addresses, courses, assignments, now, uuids, resp, order,
                   removed, again>>

\* `stored = d[id].model_dump()`, a KeyError when the key is gone, and
\* `stored.update(update.model_dump(exclude_unset=True))`
update_read ==
    /\ racing.upd = "read"
    /\ racing' = IF Has(RaceDict, racing.id)
                 THEN [racing EXCEPT !.upd = "write",
                                     !.stored = dict_update(GetItem(RaceDict, racing.id),
                                                            racing.update)]
                 ELSE [racing EXCEPT !.upd = "done", !.ustatus = 500]
    /\ UNCHANGED <<persons, addresses, courses, assignments, now, uuids, resp, order,
                   removed, again>>

\* `d[id] = XRead(**stored)`, a ValidationError when a required field is None
update_write ==
    /\ racing.upd = "write"
    /\ IF ~Valid(IF racing.kind = "address" THEN AddressRequired ELSE CourseRequired,
                 racing.stored)
       THEN /\ racing' = [racing EXCEPT !.upd = "done", !.ustatus = 500]
            /\ UNCHANGED <<addresses, courses, order>>
       ELSE /\ RaceWrite(SetItem(RaceDict, racing.id,
                                 IF racing.kind = "address"
                                 THEN AddressRead(racing.stored, uuid4, now, now)
                                 ELSE CourseRead(racing.stored, uuid4, now, now)))
            /\ racing' = [racing EXCEPT !.upd = "return"]
            /\ order' = IF Has(RaceDict, racing.id) THEN order
                        ELSE [order EXCEPT ![racing.kind] = Append(@, racing.id)]
    /\ UNCHANGED <<persons, assignments, now, uuids, resp, removed, again>>

\* `return d[id]`, a KeyError when the key is gone
update_return ==
    /\ racing.upd = "return"
    /\ racing' = [racing EXCEPT !.upd = "done",
                                !.ustatus = IF Has(RaceDict, racing.id) THEN 200 ELSE 500]
    /\ UNCHANGED <<persons, addresses, courses, assignments, now, uuids, resp, order,
                   removed, again>>

\* `if id not in d: raise HTTPException(status_code=404)`
delete_check ==
    /\ racing.del = "check"
    /\ racing' = IF Has(RaceDict, racing.id)
                 THEN [racing EXCEPT !.del = "remove"]
                 ELSE [racing EXCEPT !.del = "done", !.dstatus = 404]
    /\ UNCHANGED <<persons, addresses, courses, assignments, now, uuids, resp, order,
                   removed, again>>

\* `del d[id]`, a KeyError when the key is gone, and the return with status 204
delete_remove ==
    /\ racing.del = "remove"
    /\ IF ~Has(RaceDict, racing.id)
       THEN /\ racing' = [racing EXCEPT !.del = "done", !.dstatus = 500]
            /\ UNCHANGED <<addresses, courses, order, removed>>
       ELSE /\ RaceWrite(DelItem(RaceDict, racing.id))
            /\ racing' = [racing EXCEPT !.del = "done", !.dstatus = 204]
            /\ order' = [order EXCEPT ![racing.kind] = SelectSeq(@, LAMBDA i : i # racing.id)]
            /\ removed' = removed \cup {<<racing.kind, racing.id>>}
    /\ UNCHANGED <<persons, assignments, now, uuids, resp, again>>

\* records are created by requests served alone, then one update and one delete of an
\* id run side by side
NextRace ==
    \/ \E c \in CourseCreates, t1 \in Ticks(now) : \E t2 \in Ticks(t1) :
            racing = Idle /\ create_course(c, t1, t2) /\ Served
    \/ \E a \in AddressCreates, t1 \in Ticks(now) : \E t2 \in Ticks(t1) :
            racing = Idle /\ create_address(a, t1, t2) /\ Served
    \/ \E id \in ClientIds, b \in Keeping(CourseUpdateBodies, CourseRequired) :
            start_race("course", id, CourseUpdate(b))
    \/ \E id \in ClientIds, b \in Keeping(AddressUpdateBodies, AddressRequired) :
            start_race("address", id, AddressUpdate(b))
    \/ update_check
    \/ update_read
    \/ update_write
    \/ update_return
    \/ delete_check
    \/ delete_remove

SpecRace == Init /\ [][NextRace]_vars

-----------------------------------------------------------------------------
(* Vocabulary of the properties *)

Kinds == {"person", "address", "course", "assignment"}

\* the four dicts by resource
Dicts == [person |-> persons, address |-> addresses, course |-> courses,
          assignment |-> assignments]

CreateOps == {"create_person", "create_address", "create_course", "create_assignment"}

ListOps == {"list_persons", "list_addresses", "list_courses", "list_assignments"}

GetOps == {"get_person", "get_address", "get_course", "get_assignment"}

UpdateOps == {"update_person", "update_address", "update_course", "update_assignment"}

DeleteOps == {"delete_address", "delete_course"}

\* the resource a handler works on
KindOf(op) ==
    CASE op \in {"create_person", "list_persons", "get_person", "update_person"} -> "person"
      [] op \in {"create_address", "list_addresses", "get_address", "update_address",
                 "delete_address"} -> "address"
      [] op \in {"create_course", "list_courses", "get_course", "update_course",
                 "delete_course"} -> "course"
      [] OTHER -> "assignment"

\* the fields an update payload of resource k can carry
PayloadFields(k) ==
    CASE k = "person" -> PersonFields
      [] k = "address" -> AddressFields
      [] k = "course" -> CourseFields
      [] OTHER -> AssignmentFields

\* every record held by any of the four dicts
AllRecords == UNION { {Dicts[k][i].value : i \in DOMAIN Dicts[k]} : k \in Kinds }

\* the step just taken was a successful update: resp' is its response
UpdateOk == resp'.op \in UpdateOps /\ resp'.status = 200

\* the record the latest request named, before and after the step
Before == GetItem(Dicts[KindOf(resp'.op)], resp'.id)

After == GetItem(Dicts'[KindOf(resp'.op)], resp'.id)

\* the step just taken was a successful create: resp' is its response
CreateOk == resp'.op \in CreateOps /\ resp'.status = 201

\* the ids of a sequence of records
Ids(records) == [i \in DOMAIN records |-> records[i].id]

\* every key of a dict maps to a record with that id
KeysAreIds == \A k \in Kinds : \A i \in DOMAIN Dicts[k] : Dicts[k][i].value.id = Dicts[k][i].key

\* no dict holds a key twice
UniqueKeys ==
    \A k \in Kinds : \A i, j \in DOMAIN Dicts[k] : Dicts[k][i].key = Dicts[k][j].key => i = j

\* the query supplies no filter
NoFilter(q) == \A f \in DOMAIN q : q[f] = None

\* record r of resource k satisfies the filter f = v
Satisfies(k, r, f, v) ==
    IF k = "person" /\ f \in {"city", "country"}
    THEN \E i \in DOMAIN r.addresses : r.addresses[i][f] = v
    ELSE IF f \in {"birth_date", "due_date", "assigned_date"}
    THEN v = Some(str(r[f]))
    ELSE r[f] = v

\* record r of resource k satisfies every filter the query q supplies
Matches(k, r, q) == \A f \in DOMAIN q : q[f] # None => Satisfies(k, r, f, q[f])

-----------------------------------------------------------------------------
(* C1: every successful update sets updated_at, of the stored and of the    *)
(* returned record, to the time of the update: it is not earlier than the   *)
(* clock at the call, and it is later than created_at whenever the clock    *)
(* advanced since the record was created.                                   *)
C1_UpdateRefreshesUpdatedAt ==
    [][UpdateOk =>
        /\ After.updated_at >= now'
        /\ resp'.body.updated_at >= now'
        /\ (now' > Before.created_at => After.updated_at > After.created_at)]_vars

-----------------------------------------------------------------------------
(* C2: a successful update leaves the record's id and created_at as they    *)
(* were and leaves it under the same key, whatever the payload; in every    *)
(* reachable state each key of a dict maps to a record with that id.        *)
C2_UpdateKeepsIdentity ==
    /\ []KeysAreIds
    /\ [][UpdateOk =>
            /\ Keys(Dicts'[KindOf(resp'.op)]) = Keys(Dicts[KindOf(resp'.op)])
            /\ After.id = Before.id
            /\ After.created_at = Before.created_at
            /\ resp'.body.id = resp'.id
            /\ resp'.body.created_at = Before.created_at]_vars

\* an assignment with id 2 took the update whose body carried "id": 1
C2_Witness ==
    /\ resp.op = "update_assignment" /\ resp.status = 200 /\ resp.id = 2
    /\ resp.body.title = Some("")
    /\ resp.body.id = 2

-----------------------------------------------------------------------------
(* C3: a successful update overlays the payload on the stored record: each  *)
(* supplied payload field (an empty string, a zero or a null included)      *)
(* takes the supplied value, each field not supplied keeps its stored       *)
(* value, in the stored and in the returned record.                         *)
C3_UpdateOverlays ==
    [][UpdateOk =>
        /\ \A f \in PayloadFields(KindOf(resp'.op)) :
                After[f] = IF f \in DOMAIN resp'.args THEN resp'.args[f] ELSE Before[f]
        /\ resp'.body = After]_vars

\* a course took title "", credits 0 and a null semester and kept its course code
C3_Witness ==
    /\ resp.op = "update_course" /\ resp.status = 200
    /\ DOMAIN resp.args = {"title", "credits", "semester"}
    /\ resp.body.title = Some("") /\ resp.body.credits = Some(0) /\ resp.body.semester = None
    /\ resp.body.course_code = Some("COMS W4111")

-----------------------------------------------------------------------------
(* C4: within each dict identifiers are unique, and an identifier removed   *)
(* by a delete is never given to a record again by a later successful       *)
(* create.                                                                  *)
C4_IdsNeverReused ==
    /\ []UniqueKeys
    /\ [][CreateOk => <<KindOf(resp'.op), resp'.id>> \notin removed]_vars

(* C4 as amended: within each dict identifiers are unique and a successful  *)
(* create gives the record an identifier that is not in the dict; an        *)
(* identifier removed by a delete is never given again by a later create    *)
(* of a Person, Course or Assignment (uuid4 not repeating), while the       *)
(* Address dict accepts a deleted identifier again.                         *)
C4_IdsUniqueAndFreshWhenGenerated ==
    /\ []UniqueKeys
    /\ [][CreateOk =>
            /\ ~Has(Dicts[KindOf(resp'.op)], resp'.id)
            /\ Has(Dicts'[KindOf(resp'.op)], resp'.id)
            /\ (resp'.op # "create_address" => <<KindOf(resp'.op), resp'.id>> \notin removed)]_vars

\* a course was created after another course had been deleted
C4_Witness ==
    /\ resp.op = "create_course" /\ resp.status = 201
    /\ \E r \in removed : r[1] = "course" /\ r[2] # resp.id

-----------------------------------------------------------------------------
(* C5: create_address with an id that is a key of addresses fails with 400  *)
(* and leaves addresses as it was; with an id that is not, it adds exactly  *)
(* one record, under that id, and returns it.                               *)
C5_CreateAddressConflict ==
    [][resp'.op = "create_address" =>
        IF Has(addresses, resp'.id)
        THEN resp'.status = 400 /\ addresses' = addresses
        ELSE /\ resp'.status = 201
             /\ Len(addresses') = Len(addresses) + 1
             /\ SubSeq(addresses', 1, Len(addresses)) = addresses
             /\ addresses'[Len(addresses')].key = resp'.id
             /\ addresses'[Len(addresses')].value = resp'.body
             /\ resp'.body.id = resp'.id
             /\ \A f \in AddressFields : resp'.body[f] = resp'.args[f]]_vars

\* a create was refused while the address of that id stayed, updated as it was
C5_Witness ==
    /\ resp.op = "create_address" /\ resp.status = 400
    /\ Has(addresses, resp.id)
    /\ GetItem(addresses, resp.id).city = Some("")

-----------------------------------------------------------------------------
(* C6: get, update and delete of an id that is not a key of the dict fail   *)
(* with 404 and leave all four dicts as they were (an update of an absent   *)
(* id creates nothing); they answer 404 in no other case.                   *)
C6_AbsentIdNotFound ==
    [][resp'.op \in GetOps \cup UpdateOps \cup DeleteOps =>
        /\ ~Has(Dicts[KindOf(resp'.op)], resp'.id) =>
                resp'.status = 404 /\ Dicts' = Dicts
        /\ resp'.status = 404 => ~Has(Dicts[KindOf(resp'.op)], resp'.id)]_vars

\* an update named a deleted course, got 404, and the course is still absent
C6_Witness ==
    /\ resp.op = "update_course" /\ resp.status = 404
    /\ <<"course", resp.id>> \in removed
    /\ ~Has(courses, resp.id)
    /\ courses # << >>

-----------------------------------------------------------------------------
(* C7: every record of every dict has updated_at >= created_at (the clock   *)
(* never goes backwards).                                                   *)
C7_UpdatedNotBeforeCreated == \A r \in AllRecords : r.updated_at >= r.created_at

\* a record whose two timestamps were read at different clock values
C7_Witness == \E r \in AllRecords : r.updated_at > r.created_at

-----------------------------------------------------------------------------
(* C8: a get of the id right after a successful create or update returns    *)
(* the record that create or update returned, and right after a successful  *)
(* delete it fails with 404.                                                *)
C8_ReadYourWrites ==
    [][(resp'.op \in GetOps /\ KindOf(resp'.op) = KindOf(resp.op) /\ resp'.id = resp.id) =>
        /\ (resp.op \in CreateOps /\ resp.status = 201) =>
                resp'.status = 200 /\ resp'.body = resp.body
        /\ (resp.op \in UpdateOps /\ resp.status = 200) =>
                resp'.status = 200 /\ resp'.body = resp.body
        /\ (resp.op \in DeleteOps /\ resp.status = 204) => resp'.status = 404]_vars

\* a get failed with 404 on an address that had been created and deleted
C8_Witness ==
    /\ resp.op = "get_address" /\ resp.status = 404
    /\ <<"address", resp.id>> \in removed
    /\ ~Has(addresses, resp.id)

-----------------------------------------------------------------------------
(* C9: a list with no filter returns exactly the records in the dict, each  *)
(* once, in the order in which their creations succeeded, after any creates,*)
(* updates and deletes.                                                     *)
C9_ListInCreationOrder ==
    (resp.op \in ListOps /\ NoFilter(resp.args)) =>
        /\ Ids(resp.body) = order[KindOf(resp.op)]
        /\ \A i \in DOMAIN resp.body :
                resp.body[i] = GetItem(Dicts[KindOf(resp.op)], resp.body[i].id)
        /\ Len(resp.body) = Len(Dicts[KindOf(resp.op)])

\* both addresses are listed, the one created again after its deletion last,
\* the updated one still first
C9_Witness ==
    /\ resp.op = "list_addresses" /\ NoFilter(resp.args)
    /\ Ids(resp.body) = <<1, 0>>
    /\ <<"address", 0>> \in removed
    /\ resp.body[1].city = Some("")

-----------------------------------------------------------------------------
(* C10: a list returns, with status 200, exactly the subsequence of the     *)
(* stored records that satisfy every supplied filter: equality on the       *)
(* field, its textual rendering for a date, at least one embedded address   *)
(* with the value for a person's city and country; a filter not supplied    *)
(* constrains nothing, and a list changes no dict.                          *)
C10_ListFilters ==
    /\ [](resp.op \in ListOps =>
            /\ resp.status = 200
            /\ resp.body = SelectSeq(Values(Dicts[KindOf(resp.op)]),
                                     LAMBDA r : Matches(KindOf(resp.op), r, resp.args)))
    /\ [][resp'.op \in ListOps => Dicts' = Dicts]_vars

\* two filters were supplied and one of two courses satisfies both
C10_Witness ==
    /\ resp.op = "list_courses"
    /\ resp.args.instructor # None /\ resp.args.credits # None
    /\ Len(courses) = 2 /\ Len(resp.body) = 1
    /\ \E i \in DOMAIN courses : courses[i].value.instructor = resp.args.instructor
                                  /\ courses[i].value.credits # resp.args.credits

-----------------------------------------------------------------------------
(* C11: update is idempotent on the payload fields: when an update is       *)
(* repeated right away, with the same id and the same payload, the second   *)
(* application answers with the status of the first, and after a success    *)
(* the stored and the returned record have the payload fields, the id and   *)
(* the created_at that the first application left; after a failure the     *)
(* dict is as it was.                                                       *)
C11_UpdateIdempotent ==
    [][(/\ resp'.op \in UpdateOps
        /\ resp'.op = resp.op
        /\ resp'.id = resp.id
        /\ resp'.args = resp.args) =>
            /\ resp'.status = resp.status
            /\ IF resp'.status = 200
               THEN \A f \in PayloadFields(KindOf(resp'.op)) \cup {"id", "created_at"} :
                        /\ After[f] = Before[f]
                        /\ resp'.body[f] = resp.body[f]
               ELSE Dicts'[KindOf(resp'.op)] = Dicts[KindOf(resp'.op)]]_vars

\* a successful update with a payload that sets fields has just been applied a second
\* time, and the record holds the payload's values
C11_Witness ==
    /\ again
    /\ DOMAIN resp.args \cap PayloadFields(KindOf(resp.op)) # {}
    /\ \A f \in DOMAIN resp.args \cap PayloadFields(KindOf(resp.op)) :
            GetItem(Dicts[KindOf(resp.op)], resp.id)[f] = resp.args[f]

-----------------------------------------------------------------------------
(* C12: the four stores are independent: a request to a handler of one      *)
(* resource leaves the dicts of the other three resources as they were, so  *)
(* deleting a course leaves every assignment in place and unaltered, and    *)
(* create_assignment answers 201 and stores the record with the course_id   *)
(* of its payload, be that course_id a key of courses or not.               *)
C12_StoresIndependent ==
    [][/\ \A k \in Kinds \ {KindOf(resp'.op)} : Dicts'[k] = Dicts[k]
       /\ resp'.op = "create_assignment" =>
            /\ resp'.status = 201
            /\ Has(assignments', resp'.id)
            /\ GetItem(assignments', resp'.id) = resp'.body
            /\ resp'.body.course_id = resp'.args.course_id]_vars

\* a course has just been deleted while an assignment names it as its course, and the
\* assignment is still held
C12_Witness ==
    /\ resp.op = "delete_course"
    /\ resp.status = 204
    /\ ~Has(courses, resp.id)
    /\ \E i \in DOMAIN assignments : assignments[i].value.course_id = Some(resp.id)

-----------------------------------------------------------------------------
(* C13: when an update and a delete of one id of the address or the course  *)
(* dict run side by side, interleaved line by line, then once both have     *)
(* answered the update has answered 200 or 404 and the delete 204 or 404,   *)
(* and if the delete answered 204 the id is no key of the dict.             *)
C13_RaceKeepsDeleteAndStatuses ==
    (racing.upd = "done" /\ racing.del = "done") =>
        /\ racing.ustatus \in {200, 404}
        /\ racing.dstatus \in {204, 404}
        /\ racing.dstatus = 204 => ~Has(RaceDict, racing.id)

====
